---- MODULE Spec2Model ----
(***************************************************************************)
(* Verification model of the travel planner's deterministic core:          *)
(*   - check_plan (checker_agent.py): the rule battery,                    *)
(*   - compute_itinerary_centroid / compute_distance_km (tools.py),        *)
(*   - run_pipeline (pipeline.py): the bounded generate/validate loop.     *)
(* The language-model agents (generate_plan, recommend_hotels,             *)
(* recommend_flights, generate_attraction_descriptions, format_trip) are   *)
(* external collaborators: each call nondeterministically returns a value  *)
(* from a small set or raises.                                             *)
(*                                                                         *)
(* Data representation.  Python values are TLA+ records of uniform shape:  *)
(*   optional number  [k : {"absent","bad","num"}, v : Int]                *)
(*        "absent" = key missing, "bad" = present but not a number         *)
(*        (None or an unparsable string), "num" = numeric value v          *)
(*   activity item    [name, lat, lng, description]                        *)
(*   day              [ok, day_index, morning, afternoon, evening]         *)
(*        ok = FALSE: the element of "days" is not a dict                  *)
(*   itinerary        [isdict, days]                                       *)
(*   hotel offer      [ok, name, total_price, distance_km, lat, lng]       *)
(*   hotels           [isdict, recommended_hotels]                         *)
(*   flight leg       [k : {"absent","dict","bad"}, recommended_flights]   *)
(*        "absent" = key missing / None / {}, "bad" = truthy non-dict      *)
(*   flights          [isdict, outbound, return]                           *)
(* Money amounts and distances are integers (fixed point).                 *)
(***************************************************************************)
EXTENDS Integers, Sequences, FiniteSets, TLC

----------------------------------------------------------------------------
(* Value constructors *)

Num(v) == [k |-> "num", v |-> v]
Absent == [k |-> "absent", v |-> 0]
Bad == [k |-> "bad", v |-> 0]

Item(name, lat, lng) ==
  [name |-> name, lat |-> lat, lng |-> lng, description |-> ""]

Day(idx, m, a, e) ==
  [ok |-> TRUE, day_index |-> idx, morning |-> m, afternoon |-> a, evening |-> e]

BadDay == [ok |-> FALSE, day_index |-> 0, morning |-> <<>>, afternoon |-> <<>>,
           evening |-> <<>>]

Itin(days) == [isdict |-> TRUE, days |-> days]
NotDictItin == [isdict |-> FALSE, days |-> <<>>]

Offer(name, price, dist, lat, lng) ==
  [ok |-> TRUE, name |-> name, total_price |-> price, distance_km |-> dist,
   lat |-> lat, lng |-> lng]

BadOffer == [ok |-> FALSE, name |-> "", total_price |-> 0, distance_km |-> Absent,
             lat |-> Absent, lng |-> Absent]

Hotels(offers) == [isdict |-> TRUE, recommended_hotels |-> offers]
NotDictHotels == [isdict |-> FALSE, recommended_hotels |-> <<>>]

Leg(fs) == [k |-> "dict", recommended_flights |-> fs]
NoLeg == [k |-> "absent", recommended_flights |-> <<>>]
BadLeg == [k |-> "bad", recommended_flights |-> <<>>]
Flight(p) == [price |-> p]

Flights(o, r) == [isdict |-> TRUE, outbound |-> o, return |-> r]
NotDictFlights == [isdict |-> FALSE, outbound |-> NoLeg, return |-> NoLeg]

----------------------------------------------------------------------------
(* Program constants *)

max_iterations == 2
MaxAttractions == 5
MinAttractions == 1
DistanceLimitKm == 10

----------------------------------------------------------------------------
(* tools.py *)

RECURSIVE SumSeq(_)
SumSeq(s) == IF s = <<>> THEN 0 ELSE Head(s) + SumSeq(Tail(s))

RECURSIVE FlatDays(_)
\* the activity items of the days in iteration order (day, block, position)
FlatDays(days) ==
  IF days = <<>> THEN <<>>
  ELSE Head(days).morning \o Head(days).afternoon \o Head(days).evening
       \o FlatDays(Tail(days))

RECURSIVE LatList(_)
\* lat_list: float(item["lat"]) is appended before item["lng"] is parsed
LatList(items) ==
  IF items = <<>> THEN <<>>
  ELSE LET it == Head(items) IN
       IF it.lat.k # "absent" /\ it.lng.k # "absent" /\ it.lat.k = "num"
       THEN <<it.lat.v>> \o LatList(Tail(items))
       ELSE LatList(Tail(items))

RECURSIVE LngList(_)
\* lng_list: appended only when both conversions succeeded
LngList(items) ==
  IF items = <<>> THEN <<>>
  ELSE LET it == Head(items) IN
       IF it.lat.k = "num" /\ it.lng.k = "num"
       THEN <<it.lng.v>> \o LngList(Tail(items))
       ELSE LngList(Tail(items))

\* mutant: without any coordinate the centroid is the origin
compute_itinerary_centroid_OriginWhenEmpty(itinerary) ==
  LET days == itinerary.days
      origin == [k |-> "num", lat_sum |-> 0, lat_n |-> 1, lng_sum |-> 0, lng_n |-> 1]
  IN IF \E i \in 1..Len(days) : ~days[i].ok
     THEN [origin EXCEPT !.k = "raise"]
     ELSE LET lat_list == LatList(FlatDays(days))
              lng_list == LngList(FlatDays(days))
          IN IF lat_list = <<>> THEN origin
             ELSE IF lng_list = <<>> THEN [origin EXCEPT !.k = "raise"]
             ELSE [k |-> "num",
                   lat_sum |-> SumSeq(lat_list), lat_n |-> Len(lat_list),
                   lng_sum |-> SumSeq(lng_list), lng_n |-> Len(lng_list)]

\* compute_itinerary_centroid on the JSON text of a dict itinerary.  The
\* means are kept as exact fractions sum/n.  k = "raise": the tool raised
\* (a day that is not a dict, or a division by an empty lng_list);
\* k = "none": {"lat_center": None, "lng_center": None}.
compute_itinerary_centroid(itinerary) ==
  LET days == itinerary.days
      none == [k |-> "none", lat_sum |-> 0, lat_n |-> 1, lng_sum |-> 0, lng_n |-> 1]
  IN IF \E i \in 1..Len(days) : ~days[i].ok
     THEN [none EXCEPT !.k = "raise"]
     ELSE LET lat_list == LatList(FlatDays(days))
              lng_list == LngList(FlatDays(days))
          IN IF lat_list = <<>> THEN none
             ELSE IF lng_list = <<>> THEN [none EXCEPT !.k = "raise"]
             ELSE [k |-> "num",
                   lat_sum |-> SumSeq(lat_list), lat_n |-> Len(lat_list),
                   lng_sum |-> SumSeq(lng_list), lng_n |-> Len(lng_list)]

\* compute_distance_km(hotel, centroid) >= limit.  Coordinates are integers
\* on a local chart in kilometres, where the great-circle distance is the
\* Euclidean one; the centroid is the fraction pair of
\* compute_itinerary_centroid, so the comparison is cross-multiplied.
DistanceAtLeast(hlat, hlng, c, limit) ==
  LET dlat == hlat * c.lat_n - c.lat_sum      \* (hlat - lat_center) * lat_n
      dlng == hlng * c.lng_n - c.lng_sum      \* (hlng - lng_center) * lng_n
  IN dlat * dlat * c.lng_n * c.lng_n + dlng * dlng * c.lat_n * c.lat_n
       >= limit * limit * c.lat_n * c.lat_n * c.lng_n * c.lng_n

----------------------------------------------------------------------------
(* checker_agent.py: check_plan *)

Violation(rule, message, subject) ==
  [rule |-> rule, message |-> message, subject |-> subject]

Detail(rule, status, message) ==
  [rule |-> rule, status |-> status, message |-> message]

\* what one rule contributes: the violations it appended and its detail
RuleOut(vs, d) == [violations |-> vs, detail |-> d]

\* mutant: the error is recorded in the detail only
RuleRaised_DetailOnly(rule, vs) ==
  RuleOut(vs, Detail(rule, "failed", <<"error">>))

\* the except branch of a rule: violations appended before the error stay
RuleRaised(rule, vs) ==
  RuleOut(Append(vs, Violation(rule, "error", "")),
          Detail(rule, "failed", <<"error">>))

\* mutant: only the itinerary's type is tested
IsDicts_ItineraryOnly(itinerary, hotels, flights) == itinerary.isdict

IsDicts(itinerary, hotels, flights) ==
  itinerary.isdict /\ hotels.isdict /\ flights.isdict

\* 1. json_format
JsonFormatRule(itinerary, hotels, flights) ==
  IF ~IsDicts(itinerary, hotels, flights)
  THEN RuleOut(<<Violation("json_format", "invalid_format", "")>>,
               Detail("json_format", "failed", <<"invalid_format">>))
  ELSE RuleOut(<<>>, Detail("json_format", "passed", <<>>))

\* flights.get(leg) and flights.get(leg).get("recommended_flights")
HasFlights(leg) == leg.k = "dict" /\ leg.recommended_flights # <<>>

FirstPrice(leg) ==
  IF HasFlights(leg) THEN leg.recommended_flights[1].price ELSE 0

\* mutant: no flight cost unless both legs have a flight
FlightTotal_BothOrNothing(flights) ==
  IF HasFlights(flights.outbound) /\ HasFlights(flights.return)
  THEN FirstPrice(flights.outbound) + FirstPrice(flights.return)
  ELSE 0

FlightTotal(flights) == FirstPrice(flights.outbound) + FirstPrice(flights.return)

HotelPrices(hotels) ==
  [i \in 1..Len(hotels.recommended_hotels) |-> hotels.recommended_hotels[i].total_price]

\* mutant: a total cost equal to the budget fails too
ExceedsBudget_NotBelow(flights, hotels, total_budget) ==
  LET n == Len(hotels.recommended_hotels)
      ft == FlightTotal(flights)
  IN IF n = 0 THEN 3 * ft >= 2 * total_budget
     ELSE 3 * (ft * n + SumSeq(HotelPrices(hotels))) >= 2 * total_budget * n

\* mutant: the hotel cost is the first-ranked offer's price
ExceedsBudget_FirstOffer(flights, hotels, total_budget) ==
  LET ht == IF hotels.recommended_hotels = <<>> THEN 0
            ELSE hotels.recommended_hotels[1].total_price
  IN 3 * (FlightTotal(flights) + ht) > 2 * total_budget

\* total_cost > total_budget, where total_cost = 1.5 * (flight_total +
\* sum(hotel_prices) / len(hotel_prices)); cross-multiplied by 2 * len
ExceedsBudget(flights, hotels, total_budget) ==
  LET n == Len(hotels.recommended_hotels)
      ft == FlightTotal(flights)
  IN IF n = 0 THEN 3 * ft > 2 * total_budget
     ELSE 3 * (ft * n + SumSeq(HotelPrices(hotels))) > 2 * total_budget * n

\* 2. budget
BudgetRule(hotels, flights, total_budget) ==
  IF \/ flights.outbound.k = "bad"
     \/ flights.return.k = "bad"
     \/ \E i \in 1..Len(hotels.recommended_hotels) : ~hotels.recommended_hotels[i].ok
  THEN RuleRaised("budget", <<>>)
  ELSE IF ExceedsBudget(flights, hotels, total_budget)
  THEN RuleOut(<<Violation("budget", "exceeds", "")>>,
               Detail("budget", "failed", <<"exceeds">>))
  ELSE RuleOut(<<>>, Detail("budget", "passed", <<>>))

\* mutant: the evening block is not counted
TotalAttractions_NoEvening(day) == Len(day.morning) + Len(day.afternoon)

TotalAttractions(day) == Len(day.morning) + Len(day.afternoon) + Len(day.evening)

RECURSIVE AttractionsScan(_, _)
\* the loop over days: [raised, violations]; it stops at a day that is not a dict
AttractionsScan(days, acc) ==
  IF days = <<>> THEN [raised |-> FALSE, violations |-> acc]
  ELSE LET day == Head(days) IN
       IF ~day.ok THEN [raised |-> TRUE, violations |-> acc]
       ELSE LET n == TotalAttractions(day)
                who == ToString(day.day_index)
            IN AttractionsScan(Tail(days),
                 IF n < MinAttractions
                 THEN Append(acc, Violation("attractions_count", "minimum", who))
                 ELSE IF n > MaxAttractions
                 THEN Append(acc, Violation("attractions_count", "maximum", who))
                 ELSE acc)

\* the aggregated detail message: one issue per violation, in order
Issues(vs) == [i \in 1..Len(vs) |-> vs[i].message \o ":" \o vs[i].subject]

\* mutant: an itinerary without days is reported as below the minimum
AttractionsRule_NoDaysFails(itinerary) ==
  LET r == AttractionsScan(itinerary.days, <<>>)
      vs == IF itinerary.days = <<>>
            THEN <<Violation("attractions_count", "minimum", "0")>>
            ELSE r.violations
  IN IF r.raised THEN RuleRaised("attractions_count", r.violations)
     ELSE IF vs # <<>>
     THEN RuleOut(vs, Detail("attractions_count", "failed", Issues(vs)))
     ELSE RuleOut(<<>>, Detail("attractions_count", "passed", <<>>))

\* 3. attractions_count
AttractionsRule(itinerary) ==
  LET r == AttractionsScan(itinerary.days, <<>>) IN
  IF r.raised THEN RuleRaised("attractions_count", r.violations)
  ELSE IF r.violations # <<>>
  THEN RuleOut(r.violations, Detail("attractions_count", "failed", Issues(r.violations)))
  ELSE RuleOut(<<>>, Detail("attractions_count", "passed", <<>>))

\* mutant: only a distance above the limit fails
ExceedsLimit_Strict(distance) == distance > DistanceLimitKm

\* distance >= 10, applied to a precomputed distance_km
ExceedsLimit(distance) == distance >= DistanceLimitKm

RECURSIVE HotelScan(_, _, _)
\* the loop over hotel offers: [raised, violations].  It raises on an offer
\* that is not a dict, on a distance or coordinate that is not a number, and
\* when compute_itinerary_centroid raises.
HotelScan(offers, itinerary, acc) ==
  IF offers = <<>> THEN [raised |-> FALSE, violations |-> acc]
  ELSE LET hotel == Head(offers)
           rest == Tail(offers)
           raised == [raised |-> TRUE, violations |-> acc]
           far == Append(acc, Violation("hotel_distance", "too_far", hotel.name))
       IN
       IF ~hotel.ok THEN raised
       ELSE IF hotel.distance_km.k = "bad" THEN raised
       ELSE IF hotel.distance_km.k = "num"
       THEN HotelScan(rest, itinerary,
              IF ExceedsLimit(hotel.distance_km.v) THEN far ELSE acc)
       ELSE IF hotel.lat.k = "absent" \/ hotel.lng.k = "absent"
       THEN HotelScan(rest, itinerary,
              Append(acc, Violation("hotel_distance", "missing_location", hotel.name)))
       ELSE LET centroid == compute_itinerary_centroid(itinerary) IN
            IF centroid.k = "raise" THEN raised
            ELSE IF centroid.k = "none"
            THEN HotelScan(rest, itinerary,
                   Append(acc, Violation("hotel_distance", "no_centroid", hotel.name)))
            ELSE IF hotel.lat.k = "bad" \/ hotel.lng.k = "bad" THEN raised
            ELSE HotelScan(rest, itinerary,
                   IF DistanceAtLeast(hotel.lat.v, hotel.lng.v, centroid, DistanceLimitKm)
                   THEN far ELSE acc)

\* mutant: only offers that are too far count as issues of the detail
HotelDistanceRule_OnlyFarIsAnIssue(itinerary, hotels) ==
  LET r == HotelScan(hotels.recommended_hotels, itinerary, <<>>)
      issues == SelectSeq(r.violations, LAMBDA v : v.message = "too_far")
  IN IF r.raised THEN RuleRaised("hotel_distance", r.violations)
     ELSE IF issues # <<>>
     THEN RuleOut(r.violations, Detail("hotel_distance", "failed", Issues(issues)))
     ELSE RuleOut(r.violations, Detail("hotel_distance", "passed", <<>>))

\* 4. hotel_distance
HotelDistanceRule(itinerary, hotels) ==
  LET r == HotelScan(hotels.recommended_hotels, itinerary, <<>>) IN
  IF r.raised THEN RuleRaised("hotel_distance", r.violations)
  ELSE IF r.violations # <<>>
  THEN RuleOut(r.violations, Detail("hotel_distance", "failed", Issues(r.violations)))
  ELSE RuleOut(<<>>, Detail("hotel_distance", "passed", <<>>))

\* mutant: the return leg is tested with the outbound leg's flag
FlightCompletenessRule_OutboundOnly(flights) ==
  IF flights.outbound.k = "bad" \/ flights.return.k = "bad"
  THEN RuleRaised("flight_completeness", <<>>)
  ELSE LET vs == IF HasFlights(flights.outbound) THEN <<>>
                 ELSE <<Violation("flight_completeness", "missing_outbound", "")>>
       IN IF vs # <<>>
          THEN RuleOut(vs, Detail("flight_completeness", "failed", Issues(vs)))
          ELSE RuleOut(<<>>, Detail("flight_completeness", "passed", <<>>))

\* 5. flight_completeness
FlightCompletenessRule(flights) ==
  IF flights.outbound.k = "bad" \/ flights.return.k = "bad"
  THEN RuleRaised("flight_completeness", <<>>)
  ELSE LET vo == IF HasFlights(flights.outbound) THEN <<>>
                 ELSE <<Violation("flight_completeness", "missing_outbound", "")>>
           vr == IF HasFlights(flights.return) THEN <<>>
                 ELSE <<Violation("flight_completeness", "missing_return", "")>>
           vs == vo \o vr
       IN IF vs # <<>>
          THEN RuleOut(vs, Detail("flight_completeness", "failed", Issues(vs)))
          ELSE RuleOut(<<>>, Detail("flight_completeness", "passed", <<>>))

\* mutant: the verdict ignores the violations
CheckResult_AlwaysPassed(passed, violations, check_details) ==
  [passed |-> TRUE, violations |-> violations, check_details |-> check_details]

CheckResult(passed, violations, check_details) ==
  [passed |-> passed, violations |-> violations, check_details |-> check_details]

\* the early return of the json_format rule
ShortCircuit(r1) == CheckResult(FALSE, r1.violations, <<r1.detail>>)

\* mutant: the battery stops after the first rule that records a violation
check_plan_StopAtFirstFailure(itinerary, hotels, flights, total_budget) ==
  LET r1 == JsonFormatRule(itinerary, hotels, flights)
      r2 == BudgetRule(hotels, flights, total_budget)
      r3 == AttractionsRule(itinerary)
      r4 == HotelDistanceRule(itinerary, hotels)
      r5 == FlightCompletenessRule(flights)
  IN IF r1.violations # <<>> THEN ShortCircuit(r1)
     ELSE IF r2.violations # <<>>
     THEN CheckResult(FALSE, r2.violations, <<r1.detail, r2.detail>>)
     ELSE IF r3.violations # <<>>
     THEN CheckResult(FALSE, r3.violations, <<r1.detail, r2.detail, r3.detail>>)
     ELSE LET violations == r4.violations \o r5.violations
          IN CheckResult(violations = <<>>, violations,
                         <<r1.detail, r2.detail, r3.detail, r4.detail, r5.detail>>)

check_plan(itinerary, hotels, flights, total_budget) ==
  LET r1 == JsonFormatRule(itinerary, hotels, flights) IN
  IF r1.violations # <<>> THEN ShortCircuit(r1)
  ELSE LET r2 == BudgetRule(hotels, flights, total_budget)
           r3 == AttractionsRule(itinerary)
           r4 == HotelDistanceRule(itinerary, hotels)
           r5 == FlightCompletenessRule(flights)
           violations == r1.violations \o r2.violations \o r3.violations
                           \o r4.violations \o r5.violations
       IN CheckResult(violations = <<>>, violations,
                      <<r1.detail, r2.detail, r3.detail, r4.detail, r5.detail>>)

----------------------------------------------------------------------------
(* pipeline.py: run_pipeline *)

VARIABLES
  verbose,         \* argument of run_pipeline
  trip_config,     \* argument of run_pipeline
  pc,              \* position in run_pipeline
  iteration,
  check_results,
  iteration_logs,
  execution_log,
  itinerary, hotels, flights,
  check_result,
  summary_text,    \* "unbound", "None", "text" or "trace" (format_trip's verbose dict)
  final,           \* the returned bundle
  error,           \* what run_pipeline raised, "" if nothing
  calls,           \* history: the collaborator calls made so far, in order
  probe            \* harness applying check_plan to one input

pipevars == <<verbose, trip_config, pc, iteration, check_results, iteration_logs,
              execution_log, itinerary, hotels, flights, check_result,
              summary_text, final, error, calls>>

vars == <<verbose, trip_config, pc, iteration, check_results, iteration_logs,
          execution_log, itinerary, hotels, flights, check_result,
          summary_text, final, error, calls, probe>>

\* json.dumps: the text is determined by, and determines, the value dumped
JsonDumps(v) == [json |-> TRUE, of |-> v]
NoJson == [json |-> FALSE, of |-> NotDictItin]

Unset == CheckResult(FALSE, <<>>, <<>>)

TripConfig(b) ==
  [origin_city |-> "Seattle", destination_city |-> "New York", total_budget |-> b]

\* one entry of the call history
Call(fn, tc, json, i, h, f, b, raised) ==
  [fn |-> fn, attempt |-> iteration, verbose |-> verbose, trip_config |-> tc,
   itinerary_json |-> json, itinerary |-> i, hotels |-> h, flights |-> f,
   total_budget |-> b, raised |-> raised]

LogEntry(agent, status) == [agent |-> agent, status |-> status]

NoBundle ==
  [keys |-> {}, trip_config |-> TripConfig(0), itinerary |-> NotDictItin,
   hotels |-> NotDictHotels, flights |-> NotDictFlights, check_result |-> Unset,
   iterations |-> 0, summary_text |-> "unbound", all_check_results |-> <<>>,
   iteration_logs |-> <<>>, execution_log |-> <<>>]

BaseKeys == {"trip_config", "itinerary", "hotels", "flights", "check_result",
             "iterations", "summary_text"}

VerboseKeys(v) == IF v THEN {"iteration_logs", "execution_log"} ELSE {}

\* the dict built when check_result["passed"]
PassedBundle(logs) ==
  [keys |-> BaseKeys \cup VerboseKeys(verbose),
   trip_config |-> trip_config, itinerary |-> itinerary, hotels |-> hotels,
   flights |-> flights, check_result |-> check_result, iterations |-> iteration,
   summary_text |-> summary_text, all_check_results |-> <<>>,
   iteration_logs |-> IF verbose THEN logs ELSE <<>>,
   execution_log |-> IF verbose THEN execution_log ELSE <<>>]

\* mutant: the failed bundle keeps only the latest check result
FailedBundle_LatestOnly(logs) ==
  [keys |-> BaseKeys \cup {"all_check_results"} \cup VerboseKeys(verbose),
   trip_config |-> trip_config, itinerary |-> itinerary, hotels |-> hotels,
   flights |-> flights, check_result |-> check_result, iterations |-> iteration,
   summary_text |-> summary_text, all_check_results |-> <<check_result>>,
   iteration_logs |-> IF verbose THEN logs ELSE <<>>,
   execution_log |-> IF verbose THEN execution_log ELSE <<>>]

\* the dict built when the maximum number of iterations is reached
FailedBundle(logs) ==
  [keys |-> BaseKeys \cup {"all_check_results"} \cup VerboseKeys(verbose),
   trip_config |-> trip_config, itinerary |-> itinerary, hotels |-> hotels,
   flights |-> flights, check_result |-> check_result, iterations |-> iteration,
   summary_text |-> summary_text, all_check_results |-> check_results,
   iteration_logs |-> IF verbose THEN logs ELSE <<>>,
   execution_log |-> IF verbose THEN execution_log ELSE <<>>]

Idle ==
  [pc |-> "idle", itinerary |-> NotDictItin, hotels |-> NotDictHotels,
   flights |-> NotDictFlights, total_budget |-> 0, result |-> Unset]

----------------------------------------------------------------------------
(* What the external collaborators may return *)

Point(name) == Item(name, Num(0), Num(0))

GoodDay == Day(1, <<Point("A")>>, <<Point("B")>>, <<Point("C")>>)
EmptyDay == Day(1, <<>>, <<>>, <<>>)

PlannerReturns ==
  {NotDictItin, Itin(<<GoodDay>>), Itin(<<EmptyDay>>), Itin(<<GoodDay, BadDay>>)}

HotelReturns ==
  {NotDictHotels,
   Hotels(<<Offer("H1", 100, Num(0), Absent, Absent)>>),
   Hotels(<<Offer("H2", 100, Num(DistanceLimitKm), Absent, Absent)>>)}

FlightReturns ==
  {NotDictFlights,
   Flights(Leg(<<Flight(50)>>), Leg(<<Flight(50)>>)),
   Flights(NoLeg, Leg(<<Flight(50)>>))}

Budgets == {299, 300}

\* name -> description mappings returned by generate_attraction_descriptions
DescriptionMaps == {<<>>, [n \in {"A", "B", "C"} |-> "about " \o n]}

----------------------------------------------------------------------------
(* run_pipeline, step by step *)

\* mutant: off-by-one loop bound, one attempt too many
LoopCondition_OffByOne(i) == i <= max_iterations

\* mutant: off-by-one loop bound, one attempt too few
LoopCondition_OneShort(i) == i < max_iterations - 1

\* while iteration < max_iterations
LoopCondition(i) == i < max_iterations

\* mutant: items without a description are dropped from the slot
InjectBlock_DropsUndescribed(items, descriptions) ==
  LET kept == SelectSeq(items, LAMBDA it : it.name # "" /\ it.name \in DOMAIN descriptions)
  IN [i \in 1..Len(kept) |-> [kept[i] EXCEPT !.description = descriptions[kept[i].name]]]

\* the formatter block's loop over one slot: it["description"] = ...
InjectBlock(items, descriptions) ==
  [i \in 1..Len(items) |->
     IF items[i].name # "" /\ items[i].name \in DOMAIN descriptions
     THEN [items[i] EXCEPT !.description = descriptions[items[i].name]]
     ELSE items[i]]

InjectDay(day, descriptions) ==
  [day EXCEPT !.morning = InjectBlock(day.morning, descriptions),
              !.afternoon = InjectBlock(day.afternoon, descriptions),
              !.evening = InjectBlock(day.evening, descriptions)]

\* index of the first element of days that is not a dict, Len(days) + 1 if none
FirstBadDay(days) ==
  IF \E i \in 1..Len(days) : ~days[i].ok
  THEN CHOOSE i \in 1..Len(days) : ~days[i].ok /\ \A j \in 1..(i - 1) : days[j].ok
  ELSE Len(days) + 1

\* "Inject descriptions into itinerary items": [raised, itinerary].  The
\* itinerary is updated in place, so the days before the one that raises
\* keep their new descriptions.
InjectDescriptions(itin, descriptions) ==
  IF ~itin.isdict THEN [raised |-> TRUE, itinerary |-> itin]
  ELSE LET stop == FirstBadDay(itin.days) IN
       [raised |-> stop <= Len(itin.days),
        itinerary |-> [itin EXCEPT !.days =
           [i \in 1..Len(itin.days) |->
              IF i < stop THEN InjectDay(itin.days[i], descriptions)
              ELSE itin.days[i]]]]

\* lines 192-202: the mapping used, given what the collaborator returned
\* (wrapped: a dict with the keys "descriptions" and "execution_steps")
EffectiveDescriptions(v, wrapped, d) == IF v = wrapped THEN d ELSE <<>>

\* what format_trip returns: its text, or in verbose mode a dict holding it
FormatTripReturn(v) == IF v THEN "trace" ELSE "text"

\* the print after a generation stage in verbose mode calls artifact.get
PrintRaises(v, artifact) == v /\ ~artifact.isdict

GeneratorFns == {"generate_plan", "recommend_hotels", "recommend_flights"}
FormatterFns == {"generate_attraction_descriptions", "format_trip"}

\* mutant: the try block encloses the generation stages too
Caught_Everything(fn) == TRUE

\* mutant: no try block around the formatter
Caught_Nothing(fn) == FALSE

\* the calls made inside the try block (lines 179-224)
Caught(fn) == fn \in FormatterFns

\* mutant: the itinerary of the first attempt is serialised again
ItineraryJson_Stale(itin) ==
  IF \E k \in DOMAIN calls : calls[k].fn = "generate_plan" /\ calls[k].attempt = 1
  THEN JsonDumps(calls[CHOOSE k \in DOMAIN calls :
                         calls[k].fn = "generate_plan" /\ calls[k].attempt = 1].itinerary)
  ELSE JsonDumps(itin)

\* itinerary_json = json.dumps(itinerary, ...), the argument of recommend_hotels
ItineraryJson(itin) == JsonDumps(itin)

\* mutant: the test of the verdict is inverted
ReturnsNow_Inverted(cr) == ~cr.passed

\* if check_result["passed"]: return final
ReturnsNow(cr) == cr.passed

\* except Exception in the formatter block
FormatterFailed(log) ==
  /\ summary_text' = "None"
  /\ execution_log' =
       IF verbose THEN Append(log, LogEntry("formatter_agent", "failed")) ELSE log
  /\ pc' = "log"
  /\ error' = error

\* collaborator fn raised: handled by the except clause if the call is
\* inside the try block, otherwise run_pipeline raises it
Raised(fn) ==
  IF Caught(fn) THEN FormatterFailed(execution_log)
  ELSE /\ pc' = "raised"
       /\ error' = fn
       /\ UNCHANGED <<summary_text, execution_log>>

WhileHead ==
  /\ pc = "while"
  /\ LoopCondition(iteration)
  /\ iteration' = iteration + 1
  /\ execution_log' = <<>>
  /\ pc' = "planner"
  /\ UNCHANGED <<verbose, trip_config, check_results, iteration_logs, itinerary,
                 hotels, flights, check_result, summary_text, final, error, calls,
                 probe>>

\* Step 1.  In verbose mode a result of the form {"result", "execution_steps"}
\* is unwrapped (lines 45-46); both forms leave the same itinerary, so the
\* returned value r stands for the itinerary in either form.  The print that
\* follows calls itinerary.get and raises on an itinerary that is not a dict.
GeneratePlan ==
  /\ pc = "planner"
  /\ \/ /\ calls' = Append(calls, Call("generate_plan", trip_config, NoJson,
                             NotDictItin, NotDictHotels, NotDictFlights, 0, TRUE))
        /\ Raised("generate_plan")
        /\ UNCHANGED itinerary
     \/ \E r \in PlannerReturns :
        /\ calls' = Append(calls, Call("generate_plan", trip_config, NoJson,
                             r, NotDictHotels, NotDictFlights, 0, FALSE))
        /\ itinerary' = r
        /\ execution_log' =
             IF verbose THEN Append(execution_log, LogEntry("planner_agent", "completed"))
             ELSE execution_log
        /\ IF PrintRaises(verbose, r)
           THEN pc' = "raised" /\ error' = "AttributeError"
           ELSE pc' = "hotel" /\ error' = error
        /\ UNCHANGED summary_text
  /\ UNCHANGED <<verbose, trip_config, iteration, check_results, iteration_logs,
                 hotels, flights, check_result, final, probe>>

\* Step 2, as step 1: the verbose print calls hotels.get.
RecommendHotels ==
  /\ pc = "hotel"
  /\ LET itinerary_json == ItineraryJson(itinerary) IN
     \/ /\ calls' = Append(calls, Call("recommend_hotels", trip_config, itinerary_json,
                             NotDictItin, NotDictHotels, NotDictFlights, 0, TRUE))
        /\ Raised("recommend_hotels")
        /\ UNCHANGED hotels
     \/ \E r \in HotelReturns :
        /\ calls' = Append(calls, Call("recommend_hotels", trip_config, itinerary_json,
                             NotDictItin, r, NotDictFlights, 0, FALSE))
        /\ hotels' = r
        /\ execution_log' =
             IF verbose THEN Append(execution_log, LogEntry("hotel_agent", "completed"))
             ELSE execution_log
        /\ IF PrintRaises(verbose, r)
           THEN pc' = "raised" /\ error' = "AttributeError"
           ELSE pc' = "flight" /\ error' = error
        /\ UNCHANGED summary_text
  /\ UNCHANGED <<verbose, trip_config, iteration, check_results, iteration_logs,
                 itinerary, flights, check_result, final, probe>>

\* Step 3: the verbose print reads nothing of flights.
RecommendFlights ==
  /\ pc = "flight"
  /\ \/ /\ calls' = Append(calls, Call("recommend_flights", trip_config, NoJson,
                             NotDictItin, NotDictHotels, NotDictFlights, 0, TRUE))
        /\ Raised("recommend_flights")
        /\ UNCHANGED flights
     \/ \E r \in FlightReturns :
        /\ calls' = Append(calls, Call("recommend_flights", trip_config, NoJson,
                             NotDictItin, NotDictHotels, r, 0, FALSE))
        /\ flights' = r
        /\ execution_log' =
             IF verbose THEN Append(execution_log, LogEntry("flight_agent", "completed"))
             ELSE execution_log
        /\ pc' = "checker"
        /\ UNCHANGED <<error, summary_text>>
  /\ UNCHANGED <<verbose, trip_config, iteration, check_results, iteration_logs,
                 itinerary, hotels, check_result, final, probe>>

\* mutant: the violations list outlives the call
CheckPlan_Stateful ==
  /\ pc = "checker"
  /\ LET fresh == check_plan(itinerary, hotels, flights, trip_config.total_budget)
         r == [fresh EXCEPT !.violations = check_result.violations \o @,
                            !.passed = (check_result.violations \o fresh.violations) = <<>>]
     IN
     /\ calls' = Append(calls, Call("check_plan", TripConfig(0), NoJson, itinerary,
                          hotels, flights, trip_config.total_budget, FALSE))
     /\ check_result' = r
     /\ check_results' = Append(check_results, r)
  /\ execution_log' = Append(execution_log, LogEntry("checker_agent", "completed"))
  /\ pc' = "descriptions"
  /\ UNCHANGED <<verbose, trip_config, iteration, iteration_logs, itinerary, hotels,
                 flights, summary_text, final, error, probe>>

CheckPlan ==
  /\ pc = "checker"
  /\ LET r == check_plan(itinerary, hotels, flights, trip_config.total_budget) IN
     /\ calls' = Append(calls, Call("check_plan", TripConfig(0), NoJson, itinerary,
                          hotels, flights, trip_config.total_budget, FALSE))
     /\ check_result' = r
     /\ check_results' = Append(check_results, r)
  /\ execution_log' = Append(execution_log, LogEntry("checker_agent", "completed"))
  /\ pc' = "descriptions"
  /\ UNCHANGED <<verbose, trip_config, iteration, iteration_logs, itinerary, hotels,
                 flights, summary_text, final, error, probe>>

AttractionDescriptions ==
  /\ pc = "descriptions"
  /\ \/ /\ calls' = Append(calls, Call("generate_attraction_descriptions", trip_config,
                             NoJson, itinerary, hotels, flights, 0, TRUE))
        /\ Raised("generate_attraction_descriptions")
        /\ UNCHANGED itinerary
     \/ \E d \in DescriptionMaps, wrapped \in BOOLEAN :
        LET inj == InjectDescriptions(itinerary, EffectiveDescriptions(verbose, wrapped, d))
            logged == IF verbose /\ wrapped
                      THEN Append(execution_log, LogEntry("formatter_agent", "completed"))
                      ELSE execution_log
        IN
        /\ calls' = Append(calls, Call("generate_attraction_descriptions", trip_config,
                             NoJson, itinerary, hotels, flights, 0, FALSE))
        /\ itinerary' = inj.itinerary
        /\ IF inj.raised
           THEN FormatterFailed(logged)
           ELSE /\ execution_log' = logged
                /\ pc' = "format"
                /\ UNCHANGED <<summary_text, error>>
  /\ UNCHANGED <<verbose, trip_config, iteration, check_results, iteration_logs,
                 hotels, flights, check_result, final, probe>>

FormatTrip ==
  /\ pc = "format"
  /\ \/ /\ calls' = Append(calls, Call("format_trip", trip_config, NoJson, itinerary,
                             hotels, flights, 0, TRUE))
        /\ Raised("format_trip")
     \/ /\ calls' = Append(calls, Call("format_trip", trip_config, NoJson, itinerary,
                             hotels, flights, 0, FALSE))
        /\ summary_text' = FormatTripReturn(verbose)
        /\ pc' = "log"
        /\ UNCHANGED <<execution_log, error>>
  /\ UNCHANGED <<verbose, trip_config, iteration, check_results, iteration_logs,
                 itinerary, hotels, flights, check_result, final, probe>>

\* mutant: the iteration log keeps the latest record only
EndIteration_KeepsLastLog ==
  /\ pc = "log"
  /\ LET logs == <<[iteration |-> iteration, execution_log |-> execution_log,
                    check_result |-> check_result]>>
     IN
     /\ iteration_logs' = logs
     /\ IF ReturnsNow(check_result)
        THEN final' = PassedBundle(logs) /\ pc' = "returned"
        ELSE IF LoopCondition(iteration)
        THEN final' = final /\ pc' = "while"
        ELSE final' = FailedBundle(logs) /\ pc' = "returned"
  /\ UNCHANGED <<verbose, trip_config, iteration, check_results, execution_log,
                 itinerary, hotels, flights, check_result, summary_text, error, calls,
                 probe>>

\* lines 226-281: save the iteration's log, then return or loop
EndIteration ==
  /\ pc = "log"
  /\ LET logs == Append(iteration_logs,
                   [iteration |-> iteration, execution_log |-> execution_log,
                    check_result |-> check_result])
     IN
     /\ iteration_logs' = logs
     /\ IF ReturnsNow(check_result)
        THEN final' = PassedBundle(logs) /\ pc' = "returned"
        ELSE IF LoopCondition(iteration)
        THEN final' = final /\ pc' = "while"
        ELSE final' = FailedBundle(logs) /\ pc' = "returned"
  /\ UNCHANGED <<verbose, trip_config, iteration, check_results, execution_log,
                 itinerary, hotels, flights, check_result, summary_text, error, calls,
                 probe>>

PipeInit(v, b) ==
  /\ verbose = v
  /\ trip_config = TripConfig(b)
  /\ pc = "while"
  /\ iteration = 0
  /\ check_results = <<>>
  /\ iteration_logs = <<>>
  /\ execution_log = <<>>
  /\ itinerary = NotDictItin
  /\ hotels = NotDictHotels
  /\ flights = NotDictFlights
  /\ check_result = Unset
  /\ summary_text = "unbound"
  /\ final = NoBundle
  /\ error = ""
  /\ calls = <<>>

Init ==
  /\ \E v \in BOOLEAN, b \in Budgets : PipeInit(v, b)
  /\ probe = Idle

Next ==
  \/ WhileHead
  \/ GeneratePlan
  \/ RecommendHotels
  \/ RecommendFlights
  \/ CheckPlan
  \/ AttractionDescriptions
  \/ FormatTrip
  \/ EndIteration

Spec == Init /\ [][Next]_vars

\* every call returns, so a run that can take a step does
FairSpec == Spec /\ WF_vars(Next)

----------------------------------------------------------------------------
(* check_plan applied to one input drawn from bounded sets *)

MaxDays == 2
MaxOffers == 2

SixDay == Day(1, <<Item("A", Absent, Absent), Item("B", Absent, Absent)>>,
                 <<Item("C", Absent, Absent), Item("D", Absent, Absent)>>,
                 <<Item("E", Absent, Absent), Item("F", Absent, Absent)>>)

DayShapes == {GoodDay, EmptyDay, SixDay, BadDay}

OfferShapes ==
  {Offer("H1", 100, Num(0), Absent, Absent),
   Offer("H2", 100, Num(DistanceLimitKm), Absent, Absent),
   Offer("H3", 100, Absent, Num(0), Num(0)),
   BadOffer}

LegShapes == {NoLeg, BadLeg, Leg(<<>>), Leg(<<Flight(50)>>)}

\* days are numbered from 1 in order
Numbered(f) ==
  [i \in DOMAIN f |-> IF f[i].ok THEN [f[i] EXCEPT !.day_index = i] ELSE f[i]]

CheckItineraries ==
  {NotDictItin} \cup
  UNION {{Itin(Numbered(f)) : f \in [1..n -> DayShapes]} : n \in 0..MaxDays}

CheckHotels ==
  {NotDictHotels} \cup
  UNION {{Hotels(f) : f \in [1..n -> OfferShapes]} : n \in 0..MaxOffers}

CheckFlights ==
  {NotDictFlights} \cup {Flights(o, r) : o \in LegShapes, r \in LegShapes}

InitCheck ==
  /\ PipeInit(FALSE, 300)
  /\ \E i \in CheckItineraries, h \in CheckHotels, f \in CheckFlights, b \in Budgets :
       probe = [pc |-> "call", itinerary |-> i, hotels |-> h, flights |-> f,
                total_budget |-> b, result |-> Unset]

ApplyCheckPlan ==
  /\ probe.pc = "call"
  /\ probe' = [probe EXCEPT
                 !.pc = "done",
                 !.result = check_plan(probe.itinerary, probe.hotels, probe.flights,
                                       probe.total_budget)]
  /\ UNCHANGED pipevars

SpecCheck == InitCheck /\ [][ApplyCheckPlan]_vars

----------------------------------------------------------------------------
(* check_plan applied to inputs that vary the prices and the budget *)

MaxPrice == 3

Prices == 0..MaxPrice

BudgetOffers == {Offer("H", p, Num(0), Absent, Absent) : p \in Prices}

BudgetLegs ==
  {NoLeg, BadLeg, Leg(<<>>)}
    \cup {Leg(<<Flight(p)>>) : p \in Prices}
    \cup {Leg(<<Flight(1), Flight(MaxPrice)>>)}

BudgetHotels ==
  UNION {{Hotels(f) : f \in [1..n -> BudgetOffers]} : n \in 0..MaxOffers}

BudgetFlights == {Flights(o, r) : o \in BudgetLegs, r \in BudgetLegs}

\* up to the largest total cost, 1.5 * (2 * MaxPrice + MaxPrice)
BudgetChoices == 0..(5 * MaxPrice)

InitBudget ==
  /\ PipeInit(FALSE, 300)
  /\ \E h \in BudgetHotels, f \in BudgetFlights, b \in BudgetChoices :
       probe = [pc |-> "call", itinerary |-> Itin(<<GoodDay>>), hotels |-> h,
                flights |-> f, total_budget |-> b, result |-> Unset]

SpecBudget == InitBudget /\ [][ApplyCheckPlan]_vars

----------------------------------------------------------------------------
(* check_plan applied to inputs that vary the number of activities per day *)

MaxPerBlock == 2

Block(n) == [k \in 1..n |-> Item("X", Absent, Absent)]

CountedDays ==
  {Day(1, Block(m), Block(a), Block(e)) :
     m \in 0..MaxPerBlock, a \in 0..MaxPerBlock, e \in 0..MaxPerBlock}
    \cup {BadDay}

InitAttractions ==
  /\ PipeInit(FALSE, 300)
  /\ \E n \in 0..MaxDays : \E f \in [1..n -> CountedDays] :
       probe = [pc |-> "call", itinerary |-> Itin(Numbered(f)),
                hotels |-> Hotels(<<Offer("H1", 100, Num(0), Absent, Absent)>>),
                flights |-> Flights(Leg(<<Flight(50)>>), Leg(<<Flight(50)>>)),
                total_budget |-> 300, result |-> Unset]

SpecAttractions == InitAttractions /\ [][ApplyCheckPlan]_vars

----------------------------------------------------------------------------
(* check_plan applied to inputs that vary hotel distances and coordinates *)

OneItemDay(item) == Day(1, <<item>>, <<>>, <<>>)

\* centroid: absent (no days, no coordinates, unparsable lat), (0, 0),
\* (0, 1), and a raising one (lat parsed, lng unparsable)
HotelItineraries ==
  {Itin(<<>>),
   Itin(<<OneItemDay(Item("A", Absent, Absent))>>),
   Itin(<<OneItemDay(Item("A", Bad, Num(0)))>>),
   Itin(<<OneItemDay(Item("A", Num(0), Num(0)))>>),
   Itin(<<Day(1, <<Item("A", Num(0), Num(0))>>, <<Item("B", Num(0), Num(2))>>, <<>>)>>),
   Itin(<<OneItemDay(Item("A", Num(0), Bad))>>)}

HotelDistances == {Absent, Num(DistanceLimitKm - 1), Num(DistanceLimitKm)}

\* (6, 8) is 10 km from (0, 0) and nearer than 10 km to (0, 1)
HotelCoordinates == {<<Absent, Absent>>, <<Num(6), Num(8)>>, <<Num(6), Num(7)>>}

LocatedOffers ==
  {Offer("H", 100, d, c[1], c[2]) : d \in HotelDistances, c \in HotelCoordinates}
    \cup {BadOffer}

\* offers are named by their rank
Ranked(f) ==
  [i \in DOMAIN f |-> IF f[i].ok THEN [f[i] EXCEPT !.name = ToString(i)] ELSE f[i]]

InitHotels ==
  /\ PipeInit(FALSE, 300)
  /\ \E i \in HotelItineraries : \E n \in 0..MaxOffers : \E f \in [1..n -> LocatedOffers] :
       probe = [pc |-> "call", itinerary |-> i, hotels |-> Hotels(Ranked(f)),
                flights |-> Flights(Leg(<<Flight(50)>>), Leg(<<Flight(50)>>)),
                total_budget |-> 300, result |-> Unset]

SpecHotels == InitHotels /\ [][ApplyCheckPlan]_vars

----------------------------------------------------------------------------
(* run_pipeline, and check_plan applied on its own to a drawn input *)

InitEndToEnd == Init \/ InitCheck

NextEndToEnd ==
  \/ probe = Idle /\ Next
  \/ ApplyCheckPlan

SpecEndToEnd == InitEndToEnd /\ [][NextEndToEnd]_vars

----------------------------------------------------------------------------
(* compute_itinerary_centroid applied to an itinerary drawn from bounded sets *)

MaxItems == 4

\* lat / lng of an activity: numbers, unparsable values and missing keys
ItemShapes ==
  {Item("P", Num(0), Num(0)), Item("P", Num(2), Num(2)),
   Item("P", Num(2), Bad), Item("P", Bad, Num(2)),
   Item("P", Num(2), Absent), Item("P", Absent, Num(2)),
   Item("P", Absent, Absent)}

\* the items of position lo..hi of f, as one slot
Slot(f, lo, hi) == [k \in 1..(IF hi < lo THEN 0 ELSE hi - lo + 1) |-> f[lo + k - 1]]

Min(a, b) == IF a < b THEN a ELSE b

\* the items laid out over days and slots: day d holds items 3d-2, 3d-1 and
\* 3d in its morning, afternoon and evening
Spread(f) ==
  LET n == Len(f)
      nd == (n + 2) \div 3
  IN Itin([d \in 1..nd |->
             Day(d, Slot(f, 3 * d - 2, Min(3 * d - 2, n)),
                    Slot(f, 3 * d - 1, Min(3 * d - 1, n)),
                    Slot(f, 3 * d, Min(3 * d, n)))])

InitCentroid ==
  /\ PipeInit(FALSE, 300)
  /\ \E n \in 0..MaxItems : \E f \in [1..n -> ItemShapes] :
       probe = [pc |-> "centroid", itinerary |-> Spread(f), hotels |-> NotDictHotels,
                flights |-> NotDictFlights, total_budget |-> 0, result |-> Unset]

ApplyCentroid ==
  /\ probe.pc = "centroid"
  /\ probe' = [probe EXCEPT !.pc = "centroid_done",
                            !.result = compute_itinerary_centroid(probe.itinerary)]
  /\ UNCHANGED pipevars

SpecCentroid == InitCentroid /\ [][ApplyCentroid]_vars

----------------------------------------------------------------------------
(* check_plan applied to plans with or without days and hotel offers *)

InitEmptyPlan ==
  /\ PipeInit(FALSE, 300)
  /\ \E i \in {Itin(<<>>), Itin(<<GoodDay>>)},
        h \in {Hotels(<<>>), Hotels(<<Offer("H", 1, Num(0), Absent, Absent)>>)},
        f \in BudgetFlights, b \in BudgetChoices :
       probe = [pc |-> "call", itinerary |-> i, hotels |-> h, flights |-> f,
                total_budget |-> b, result |-> Unset]

SpecEmptyPlan == InitEmptyPlan /\ [][ApplyCheckPlan]_vars

----------------------------------------------------------------------------
(* Reading the call history *)

Count(fn) == Cardinality({k \in DOMAIN calls : calls[k].fn = fn})

\* the history positions of the calls of fn made in attempt n
CallsIn(fn, n) == {k \in DOMAIN calls : calls[k].fn = fn /\ calls[k].attempt = n}

\* the generation and validation calls of attempt n, in call order
RECURSIVE StageNames(_, _)
StageNames(k, n) ==
  IF k > Len(calls) THEN <<>>
  ELSE IF calls[k].attempt = n /\ calls[k].fn \in GeneratorFns \cup {"check_plan"}
  THEN <<calls[k].fn>> \o StageNames(k + 1, n)
  ELSE StageNames(k + 1, n)

StageOrder == <<"generate_plan", "recommend_hotels", "recommend_flights", "check_plan">>

IsPrefix(s, t) == Len(s) <= Len(t) /\ \A i \in 1..Len(s) : s[i] = t[i]

\* the artifact a generation stage returned in attempt n (the call exists)
Returned(fn, n) == calls[CHOOSE k \in CallsIn(fn, n) : TRUE]

\* the itinerary with the formatter's description fields blanked
EraseBlock(items) == [i \in 1..Len(items) |-> [items[i] EXCEPT !.description = ""]]

EraseDescriptions(itin) ==
  [itin EXCEPT !.days =
     [i \in 1..Len(itin.days) |->
        [itin.days[i] EXCEPT !.morning = EraseBlock(itin.days[i].morning),
                             !.afternoon = EraseBlock(itin.days[i].afternoon),
                             !.evening = EraseBlock(itin.days[i].evening)]]]

\* the json_format failure returned by the structural short-circuit
IsJsonFormatFailure(r) ==
  /\ r.passed = FALSE
  /\ Len(r.violations) = 1
  /\ r.violations[1].rule = "json_format"
  /\ Len(r.check_details) = 1
  /\ r.check_details[1].rule = "json_format"
  /\ r.check_details[1].status = "failed"

AllChecksFailed == \A i \in DOMAIN check_results : ~check_results[i].passed

----------------------------------------------------------------------------
(* Claims *)

\* C1: when check_plan fails on every attempt, run_pipeline makes exactly 2
\* attempts (every generator and check_plan called exactly twice) and returns
\* a bundle with iterations = 2, passed = FALSE and a check history of length 2.
C1_RetryTermination ==
  (pc = "returned" /\ AllChecksFailed) =>
    /\ iteration = 2
    /\ \A fn \in GeneratorFns \cup {"check_plan"} : Count(fn) = 2
    /\ final.iterations = 2
    /\ final.check_result.passed = FALSE
    /\ "all_check_results" \in final.keys
    /\ Len(final.all_check_results) = 2

C1_Witness ==
  /\ pc = "returned"
  /\ AllChecksFailed
  /\ Len(check_results) = 2
  /\ final.iterations = 2

\* C2: a new attempt starts only after a failed check and while fewer than 2
\* attempts have run; when attempt 1 passes, run_pipeline returns with
\* iterations = 1 and calls no generator and no check_plan a second time.
C2_RetryOnlyAfterFailure ==
  /\ \A k \in DOMAIN calls :
       (calls[k].fn = "generate_plan" /\ calls[k].attempt > 1) =>
         /\ calls[k].attempt - 1 < 2
         /\ Len(check_results) >= calls[k].attempt - 1
         /\ check_results[calls[k].attempt - 1].passed = FALSE
  /\ (Len(check_results) >= 1 /\ check_results[1].passed) =>
         /\ iteration = 1
         /\ \A fn \in GeneratorFns \cup {"check_plan"} : Count(fn) = 1
         /\ pc \in {"descriptions", "format", "log", "returned"}
         /\ pc = "returned" => final.iterations = 1

C2_Witness ==
  /\ Count("generate_plan") = 2
  /\ check_results[1].passed = FALSE

\* C3: run_pipeline eventually terminates, by returning a bundle or by
\* raising, and never starts a third attempt.
C3_Terminates ==
  /\ <>(pc \in {"returned", "raised"})
  /\ [](iteration <= 2 /\ Count("generate_plan") <= 2)

C3_Witness ==
  /\ pc = "returned"
  /\ iteration = 2
  /\ Count("generate_plan") = 2

\* C4: a bundle returned with passed = FALSE has iterations = 2; its
\* itinerary, hotels, flights and check_result are those of the final attempt
\* (the itinerary as the formatter annotated it), and all_check_results holds
\* the check result of every attempt, in order, ending with check_result.
C4_FailedBundle ==
  (pc = "returned" /\ ~final.check_result.passed) =>
    /\ final.iterations = 2
    /\ EraseDescriptions(final.itinerary)
         = EraseDescriptions(Returned("generate_plan", 2).itinerary)
    /\ final.hotels = Returned("recommend_hotels", 2).hotels
    /\ final.flights = Returned("recommend_flights", 2).flights
    /\ "all_check_results" \in final.keys
    /\ Len(final.all_check_results) = 2
    /\ \A n \in 1..2 :
         LET c == Returned("check_plan", n) IN
         /\ c.itinerary = Returned("generate_plan", n).itinerary
         /\ c.hotels = Returned("recommend_hotels", n).hotels
         /\ c.flights = Returned("recommend_flights", n).flights
         /\ final.all_check_results[n]
              = check_plan(c.itinerary, c.hotels, c.flights, c.total_budget)
    /\ final.check_result = final.all_check_results[2]

C4_Witness ==
  /\ pc = "returned"
  /\ ~final.check_result.passed
  /\ final.all_check_results[1] # final.all_check_results[2]
  /\ Returned("generate_plan", 1).itinerary # Returned("generate_plan", 2).itinerary

\* C5: every returned bundle, passed or failed, verbose or not, contains the
\* trip request, the artifacts, the latest check result, the iteration count
\* and the full iteration history (one check result per attempt performed).
C5_BundleHasHistory ==
  pc = "returned" =>
    /\ BaseKeys \subseteq final.keys
    /\ final.trip_config = trip_config
    /\ final.check_result = check_results[Len(check_results)]
    /\ final.iterations = Len(check_results)
    /\ \/ /\ "all_check_results" \in final.keys
          /\ Len(final.all_check_results) = final.iterations
       \/ /\ "iteration_logs" \in final.keys
          /\ Len(final.iteration_logs) = final.iterations

\* C6: in every attempt the calls run in the order generate_plan,
\* recommend_hotels, recommend_flights, check_plan; recommend_hotels gets the
\* serialised itinerary of the same attempt, check_plan gets the three
\* artifacts of the same attempt and the request's total_budget, and every
\* generator gets the original, unchanged trip request.
C6_StagesInOrder ==
  /\ \A n \in 1..iteration : IsPrefix(StageNames(1, n), StageOrder)
  /\ \A k \in DOMAIN calls :
       LET c == calls[k] IN
       /\ c.attempt \in 1..iteration
       /\ c.fn \in GeneratorFns =>
            c.trip_config = trip_config /\ c.verbose = verbose
       /\ (c.fn = "recommend_hotels") =>
            c.itinerary_json = JsonDumps(Returned("generate_plan", c.attempt).itinerary)
       /\ (c.fn = "check_plan") =>
            /\ c.itinerary = Returned("generate_plan", c.attempt).itinerary
            /\ c.hotels = Returned("recommend_hotels", c.attempt).hotels
            /\ c.flights = Returned("recommend_flights", c.attempt).flights
            /\ c.total_budget = trip_config.total_budget

C6_Witness ==
  /\ Count("check_plan") = 2
  /\ Returned("generate_plan", 1).itinerary # Returned("generate_plan", 2).itinerary
  /\ Returned("recommend_hotels", 1).hotels # Returned("recommend_hotels", 2).hotels

\* C7: if a generation stage raises in any attempt, run_pipeline raises that
\* error at once: no later stage, no check_plan in that attempt, no retry,
\* no bundle.
C7_GeneratorErrorPropagates ==
  \A k \in DOMAIN calls :
    (calls[k].fn \in GeneratorFns /\ calls[k].raised) =>
      /\ k = Len(calls)
      /\ pc = "raised"
      /\ error = calls[k].fn
      /\ iteration = calls[k].attempt
      /\ Len(check_results) = calls[k].attempt - 1
      /\ final = NoBundle

C7_Witness ==
  /\ pc = "raised"
  /\ error = "recommend_flights"
  /\ iteration = 2

\* C8: when a generation stage returns an artifact that is not a dict,
\* run_pipeline does not raise, verbose or not: the attempt's check result is
\* the json_format failure, and a bundle is returned after at most 2 attempts.
C8_NonDictIsValidationFailure ==
  \A k \in DOMAIN calls :
    LET c == calls[k] IN
    (/\ c.fn \in GeneratorFns
     /\ ~c.raised
     /\ \/ c.fn = "generate_plan" /\ ~c.itinerary.isdict
        \/ c.fn = "recommend_hotels" /\ ~c.hotels.isdict
        \/ c.fn = "recommend_flights" /\ ~c.flights.isdict) =>
      /\ error \notin {"AttributeError"}
      /\ Len(check_results) >= c.attempt => IsJsonFormatFailure(check_results[c.attempt])
      /\ pc = "returned" => final.iterations <= 2

\* C9: if generate_attraction_descriptions or format_trip raises, run_pipeline
\* does not raise, the attempt's summary_text is None, and the check result,
\* the retry decision and iterations are what the checks alone determine.
C9_FormatterFailureContained ==
  /\ error \notin FormatterFns
  /\ (pc \in {"log", "returned"} /\ calls[Len(calls)].raised) =>
        /\ calls[Len(calls)].fn \in FormatterFns
        /\ summary_text = "None"
        /\ pc = "returned" => final.summary_text = "None"
  /\ pc = "returned" =>
        /\ final.iterations = IF check_results[1].passed THEN 1 ELSE 2
        /\ final.check_result = check_results[final.iterations]
        /\ \A n \in 1..final.iterations :
             LET c == Returned("check_plan", n) IN
             check_results[n]
               = check_plan(c.itinerary, c.hotels, c.flights, c.total_budget)

C9_Witness ==
  /\ pc = "returned"
  /\ final.iterations = 2
  /\ calls[Len(calls)].fn = "format_trip"
  /\ calls[Len(calls)].raised
  /\ \E k \in CallsIn("generate_attraction_descriptions", 1) : calls[k].raised

\* C10: when itinerary, hotels or flights is not a dict, check_plan returns
\* passed = FALSE with exactly one violation (json_format) and exactly one
\* check_details entry (json_format, failed), and nothing of another rule.
C10_StructuralShortCircuit ==
  (probe.pc = "done"
   /\ ~(probe.itinerary.isdict /\ probe.hotels.isdict /\ probe.flights.isdict)) =>
     IsJsonFormatFailure(probe.result)

C10_Witness ==
  /\ probe.pc = "done"
  /\ probe.itinerary.isdict
  /\ ~probe.hotels.isdict
  /\ probe.flights.isdict
  /\ IsJsonFormatFailure(probe.result)

\* the rule identifiers in evaluation order
RuleOrder ==
  <<"json_format", "budget", "attractions_count", "hotel_distance",
    "flight_completeness">>

\* check_plan was applied to three dicts
AppliedToDicts ==
  /\ probe.pc = "done"
  /\ probe.itinerary.isdict /\ probe.hotels.isdict /\ probe.flights.isdict

SelectRule(vs, rule) == SelectSeq(vs, LAMBDA v : v.rule = rule)

\* malformed nested data each rule trips over
HasBadOffer(h) == \E i \in 1..Len(h.recommended_hotels) : ~h.recommended_hotels[i].ok
HasBadLeg(f) == f.outbound.k = "bad" \/ f.return.k = "bad"
HasBadDay(i) == \E d \in 1..Len(i.days) : ~i.days[d].ok

\* the input with the malformed elements dropped
DropBadOffers(h) == Hotels(SelectSeq(h.recommended_hotels, LAMBDA o : o.ok))
DropBadLegs(f) ==
  Flights(IF f.outbound.k = "bad" THEN NoLeg ELSE f.outbound,
          IF f.return.k = "bad" THEN NoLeg ELSE f.return)
DropBadDays(i) == Itin(SelectSeq(i.days, LAMBDA d : d.ok))

\* the violation and detail the except branch of a rule leaves
ErrorRecorded(r, k) ==
  /\ \E j \in DOMAIN r.violations :
       r.violations[j].rule = RuleOrder[k] /\ r.violations[j].message = "error"
  /\ r.check_details[k] = Detail(RuleOrder[k], "failed", <<"error">>)

\* C11: when itinerary, hotels and flights are all dicts, check_details has
\* exactly five entries, one per rule, in the order json_format, budget,
\* attractions_count, hotel_distance, flight_completeness, whichever rules
\* fail or raise.
C11_FiveDetailsInOrder ==
  AppliedToDicts =>
    /\ Len(probe.result.check_details) = 5
    /\ \A k \in 1..5 :
         /\ probe.result.check_details[k].rule = RuleOrder[k]
         /\ probe.result.check_details[k].status \in {"passed", "failed"}

\* the budget rule raised, the attractions rule failed, and the two later
\* rules still produced their details
C11_Witness ==
  /\ AppliedToDicts
  /\ Len(probe.result.check_details) = 5
  /\ probe.result.check_details[2].message = <<"error">>
  /\ probe.result.check_details[3].status = "failed"
  /\ probe.result.check_details[4].status = "passed"
  /\ probe.result.check_details[5].status = "failed"

\* C12: when the evaluation of budget, attractions_count, hotel_distance or
\* flight_completeness raises, check_plan still returns: a violation with that
\* rule's identifier and the error is recorded, that rule's detail is failed,
\* and every later rule is evaluated and gets the verdict it gets when the
\* earlier rules do not raise (the same input with the malformed elements
\* that only the earlier rules read removed).
C12_RuleErrorContained ==
  AppliedToDicts =>
    LET i == probe.itinerary
        h == probe.hotels
        f == probe.flights
        b == probe.total_budget
        r == probe.result
    IN /\ (HasBadOffer(h) \/ HasBadLeg(f)) => ErrorRecorded(r, 2)
       /\ HasBadDay(i) => ErrorRecorded(r, 3)
       /\ HasBadOffer(h) => ErrorRecorded(r, 4)
       /\ HasBadLeg(f) => ErrorRecorded(r, 5)
       /\ Len(r.check_details) = 5
       \* attractions_count reads the itinerary only
       /\ r.check_details[3] = check_plan(i, DropBadOffers(h), DropBadLegs(f), b).check_details[3]
       /\ SelectRule(r.violations, "attractions_count")
            = SelectRule(check_plan(i, DropBadOffers(h), DropBadLegs(f), b).violations,
                         "attractions_count")
       \* hotel_distance reads the itinerary and the hotels
       /\ r.check_details[4] = check_plan(i, h, DropBadLegs(f), b).check_details[4]
       /\ SelectRule(r.violations, "hotel_distance")
            = SelectRule(check_plan(i, h, DropBadLegs(f), b).violations, "hotel_distance")
       \* flight_completeness reads the flights only
       /\ r.check_details[5] = check_plan(DropBadDays(i), DropBadOffers(h), f, b).check_details[5]
       /\ SelectRule(r.violations, "flight_completeness")
            = SelectRule(check_plan(DropBadDays(i), DropBadOffers(h), f, b).violations,
                         "flight_completeness")

\* budget and hotel_distance raised on an offer that is not a dict, and
\* flight_completeness still reported the missing return leg
C12_Witness ==
  /\ AppliedToDicts
  /\ HasBadOffer(probe.hotels)
  /\ ~HasBadLeg(probe.flights)
  /\ ErrorRecorded(probe.result, 2)
  /\ ErrorRecorded(probe.result, 4)
  /\ probe.result.check_details[3].status = "passed"
  /\ probe.result.check_details[5] =
       Detail("flight_completeness", "failed", <<"missing_return:">>)

\* C13: in every result of check_plan, passed is true exactly when the
\* violations list is empty.
C13_PassedIffNoViolations ==
  probe.pc = "done" => (probe.result.passed <=> probe.result.violations = <<>>)

\* a result with five details, one of them failed, and passed = FALSE
C13_Witness ==
  /\ AppliedToDicts
  /\ probe.result.violations # <<>>
  /\ ~probe.result.passed
  /\ \E k \in 2..5 : probe.result.check_details[k].status = "failed"
  /\ \E k \in 2..5 : probe.result.check_details[k].status = "passed"

\* hotels and flights without malformed elements
WellFormedPrices ==
  /\ AppliedToDicts
  /\ ~HasBadOffer(probe.hotels)
  /\ ~HasBadLeg(probe.flights)

BudgetViolations == SelectRule(probe.result.violations, "budget")

\* total cost compared with the budget, all terms multiplied by 2 * n:
\* ft + sum/n + 0.5 * (ft + sum/n) against total_budget
CostAgainstBudget(ft) ==
  LET offers == probe.hotels.recommended_hotels
      n == Len(offers)
      sum == SumSeq([k \in 1..n |-> offers[k].total_price])
  IN IF n = 0
     THEN [cost |-> 2 * ft + ft, budget |-> 2 * probe.total_budget]
     ELSE [cost |-> 2 * n * ft + 2 * sum + (n * ft + sum),
           budget |-> 2 * n * probe.total_budget]

\* C14: for well-formed inputs the budget rule adds a violation exactly when
\* flightTotal + hotelTotal + 0.5 * (flightTotal + hotelTotal) > total_budget,
\* hotelTotal being the mean of total_price over all offers (0 for none); a
\* total cost equal to the budget passes.
C14_BudgetRule ==
  WellFormedPrices =>
    LET c == CostAgainstBudget(FlightTotal(probe.flights)) IN
    /\ (c.cost > c.budget) <=> Len(BudgetViolations) = 1
    /\ (c.cost <= c.budget) <=> BudgetViolations = <<>>
    /\ probe.result.check_details[2].status
         = IF c.cost > c.budget THEN "failed" ELSE "passed"

\* two offers of different price whose mean puts the total exactly on the
\* budget: the rule passes
C14_Witness ==
  /\ WellFormedPrices
  /\ Len(probe.hotels.recommended_hotels) = 2
  /\ probe.hotels.recommended_hotels[1].total_price
       > probe.hotels.recommended_hotels[2].total_price
  /\ FlightTotal(probe.flights) > 0
  /\ LET c == CostAgainstBudget(FlightTotal(probe.flights)) IN c.cost = c.budget
  /\ BudgetViolations = <<>>
  /\ probe.result.check_details[2].status = "passed"

\* the price a leg adds to the flight total: its first recommended flight,
\* nothing when the list is empty or the leg is absent
LegPrice(leg) ==
  IF leg.k = "dict" /\ Len(leg.recommended_flights) >= 1
  THEN Head(leg.recommended_flights).price ELSE 0

BothLegsPriced(f) ==
  /\ f.outbound.k = "dict" /\ f.outbound.recommended_flights # <<>>
  /\ f.return.k = "dict" /\ f.return.recommended_flights # <<>>

BudgetVerdictFor(ft) ==
  LET c == CostAgainstBudget(ft) IN
  /\ (c.cost > c.budget) <=> BudgetViolations # <<>>
  /\ probe.result.check_details[2].message # <<"error">>

\* C15 as stated: flightTotal is the first outbound price plus the first
\* return price and is 0 when either leg is empty or absent; an empty or
\* absent leg never makes the budget rule raise.
C15_FlightTotalZeroIfEitherMissing ==
  WellFormedPrices =>
    BudgetVerdictFor(IF BothLegsPriced(probe.flights)
                     THEN LegPrice(probe.flights.outbound) + LegPrice(probe.flights.return)
                     ELSE 0)

\* C15 (amended): flightTotal is the sum over the two legs of the leg's first
\* recommended flight price, a leg whose list is empty or absent adding 0 on
\* its own; an empty or absent leg never makes the budget rule raise.
C15_FlightTotalPerLeg ==
  WellFormedPrices =>
    BudgetVerdictFor(LegPrice(probe.flights.outbound) + LegPrice(probe.flights.return))

\* only the return leg has flights, no hotel offer: the return price alone
\* exceeds the budget
C15_Witness ==
  /\ WellFormedPrices
  /\ probe.flights.outbound.k = "absent"
  /\ Len(probe.flights.return.recommended_flights) = 2
  /\ probe.hotels.recommended_hotels = <<>>
  /\ 3 * Head(probe.flights.return.recommended_flights).price > 2 * probe.total_budget
  /\ probe.total_budget > 0
  /\ Len(BudgetViolations) = 1
  /\ probe.result.check_details[2].message = <<"exceeds">>

\* the number of activities of day d of the checked itinerary
ItemCount(d) ==
  LET day == probe.itinerary.days[d]
  IN Len(day.morning) + Len(day.afternoon) + Len(day.evening)

\* the attractions_count violations recorded for day d
DayViolations(d) ==
  SelectSeq(probe.result.violations,
            LAMBDA v : v.rule = "attractions_count" /\ v.subject = ToString(d))

OffendingDays ==
  {d \in 1..Len(probe.itinerary.days) : ItemCount(d) = 0 \/ ItemCount(d) > 5}

\* C16: for an itinerary whose days are dicts, every day with 0 activities
\* gets exactly one attractions_count violation (minimum 1), every day with
\* more than 5 exactly one (maximum 5), a day with 1 to 5 none; all offending
\* days are reported in one failed attractions_count detail.
C16_AttractionsPerDay ==
  (AppliedToDicts /\ ~HasBadDay(probe.itinerary)) =>
    /\ \A d \in 1..Len(probe.itinerary.days) :
         /\ ItemCount(d) = 0 =>
              DayViolations(d) = <<Violation("attractions_count", "minimum", ToString(d))>>
         /\ ItemCount(d) > 5 =>
              DayViolations(d) = <<Violation("attractions_count", "maximum", ToString(d))>>
         /\ ItemCount(d) \in 1..5 => DayViolations(d) = <<>>
    /\ Len(SelectRule(probe.result.violations, "attractions_count"))
         = Cardinality(OffendingDays)
    /\ Len(SelectSeq(probe.result.check_details,
                     LAMBDA c : c.rule = "attractions_count")) = 1
    /\ probe.result.check_details[3].status
         = IF OffendingDays = {} THEN "passed" ELSE "failed"
    /\ Len(probe.result.check_details[3].message) = Cardinality(OffendingDays)

\* one day with six activities (two per block) and one with none: two
\* violations, one detail naming both
C16_Witness ==
  /\ AppliedToDicts
  /\ Len(probe.itinerary.days) = 2
  /\ ~HasBadDay(probe.itinerary)
  /\ ItemCount(1) = 6
  /\ Len(probe.itinerary.days[1].evening) = 2
  /\ ItemCount(2) = 0
  /\ SelectRule(probe.result.violations, "attractions_count")
       = <<Violation("attractions_count", "maximum", "1"),
           Violation("attractions_count", "minimum", "2")>>
  /\ probe.result.check_details[3]
       = Detail("attractions_count", "failed", <<"maximum:1", "minimum:2">>)

\* the hotel_distance violations recorded for the offer of rank j
OfferViolations(j) ==
  SelectSeq(probe.result.violations,
            LAMBDA v : v.rule = "hotel_distance" /\ v.subject = ToString(j))

CheckedOffer(j) == probe.hotels.recommended_hotels[j]

HasPrecomputed(j) == CheckedOffer(j).distance_km.k = "num"
HasCoordinates(j) == CheckedOffer(j).lat.k = "num" /\ CheckedOffer(j).lng.k = "num"

Centroid == compute_itinerary_centroid(probe.itinerary)

\* the hotel_distance rule runs to its end: every offer is a dict and the
\* centroid, where an offer needs it, is computed without an error
HotelRuleRuns ==
  /\ AppliedToDicts
  /\ ~HasBadOffer(probe.hotels)
  /\ \/ Centroid.k # "raise"
     \/ \A j \in 1..Len(probe.hotels.recommended_hotels) :
          HasPrecomputed(j) \/ ~HasCoordinates(j)

\* the distance of offer j is at least 10: distance_km when present,
\* otherwise the distance from (lat, lng) to the centroid
CheckedDistanceTooFar(j) ==
  IF HasPrecomputed(j) THEN CheckedOffer(j).distance_km.v >= 10
  ELSE DistanceAtLeast(CheckedOffer(j).lat.v, CheckedOffer(j).lng.v, Centroid, 10)

NoActivityLocated ==
  /\ ~HasBadDay(probe.itinerary)
  /\ LET items == FlatDays(probe.itinerary.days)
     IN \A k \in 1..Len(items) : ~(items[k].lat.k = "num" /\ items[k].lng.k # "absent")

NoCentroid == AppliedToDicts /\ ~HasBadOffer(probe.hotels) /\ NoActivityLocated

\* C18 as stated: when the itinerary centroid is absent, every hotel offer
\* yields a hotel_distance violation and the hotel_distance detail is failed.
C18_NoCentroidRejectsAll ==
  (NoCentroid /\ probe.hotels.recommended_hotels # <<>>) =>
    /\ \A j \in 1..Len(probe.hotels.recommended_hotels) : OfferViolations(j) # <<>>
    /\ probe.result.check_details[4].status = "failed"

\* C18 (amended): when the itinerary centroid is absent, every hotel offer
\* without a precomputed distance_km yields exactly one hotel_distance
\* violation (missing location without lat/lng, otherwise no centroid) and
\* the detail is then failed; an offer with a precomputed distance_km is
\* judged by that distance and accepted when it is below 10.
C18_NoCentroidRejectsUnmeasured ==
  NoCentroid =>
    /\ \A j \in 1..Len(probe.hotels.recommended_hotels) :
         /\ (~HasPrecomputed(j) /\ ~HasCoordinates(j)) =>
              OfferViolations(j)
                = <<Violation("hotel_distance", "missing_location", ToString(j))>>
         /\ (~HasPrecomputed(j) /\ HasCoordinates(j)) =>
              OfferViolations(j)
                = <<Violation("hotel_distance", "no_centroid", ToString(j))>>
         /\ (HasPrecomputed(j) /\ CheckedOffer(j).distance_km.v < 10) =>
              OfferViolations(j) = <<>>
    /\ (\E j \in 1..Len(probe.hotels.recommended_hotels) : ~HasPrecomputed(j)) =>
         probe.result.check_details[4].status = "failed"

\* no centroid: the offer with distance_km = 9 is accepted, the offer with
\* coordinates only is rejected
C18_Witness ==
  /\ NoCentroid
  /\ Len(probe.hotels.recommended_hotels) = 2
  /\ CheckedOffer(1).distance_km = Num(9)
  /\ ~HasPrecomputed(2) /\ HasCoordinates(2)
  /\ OfferViolations(1) = <<>>
  /\ OfferViolations(2) = <<Violation("hotel_distance", "no_centroid", "2")>>
  /\ probe.result.check_details[4].status = "failed"

\* the leg has no recommended flights: absent, or its list is empty
NoFlights(leg) == leg.k = "absent" \/ leg.recommended_flights = <<>>

FlightDetails ==
  SelectSeq(probe.result.check_details, LAMBDA c : c.rule = "flight_completeness")

\* C19: for legs that are dicts or absent, flight_completeness adds one
\* violation when the outbound leg has no recommended flights and,
\* independently, one when the return leg has none (two when both are
\* missing, none when both have flights), with a single flight_completeness
\* detail in every case.
C19_FlightCompleteness ==
  (AppliedToDicts /\ ~HasBadLeg(probe.flights)) =>
    /\ SelectRule(probe.result.violations, "flight_completeness")
         = (IF NoFlights(probe.flights.outbound)
            THEN <<Violation("flight_completeness", "missing_outbound", "")>>
            ELSE <<>>)
           \o (IF NoFlights(probe.flights.return)
               THEN <<Violation("flight_completeness", "missing_return", "")>>
               ELSE <<>>)
    /\ Len(FlightDetails) = 1
    /\ FlightDetails[1].status
         = IF NoFlights(probe.flights.outbound) \/ NoFlights(probe.flights.return)
           THEN "failed" ELSE "passed"

\* the outbound leg has a flight, the return leg an empty list: one
\* violation, for the return leg
C19_Witness ==
  /\ AppliedToDicts
  /\ probe.flights.outbound = Leg(<<Flight(50)>>)
  /\ probe.flights.return = Leg(<<>>)
  /\ SelectRule(probe.result.violations, "flight_completeness")
       = <<Violation("flight_completeness", "missing_return", "")>>
  /\ FlightDetails = <<Detail("flight_completeness", "failed", <<"missing_return:">>)>>

\* the conditions of the end-to-end scenario on one check_plan input
DaysWithinRange(i) ==
  \A d \in 1..Len(i.days) :
    /\ i.days[d].ok
    /\ Len(i.days[d].morning) + Len(i.days[d].afternoon) + Len(i.days[d].evening)
         \in 1..5

OfferNear(o, i) ==
  /\ o.ok
  /\ \/ o.distance_km.k = "num" /\ o.distance_km.v < 10
     \/ /\ o.distance_km.k = "absent"
        /\ o.lat.k = "num" /\ o.lng.k = "num"
        /\ ~HasBadDay(i)
        /\ compute_itinerary_centroid(i).k = "num"
        /\ ~DistanceAtLeast(o.lat.v, o.lng.v, compute_itinerary_centroid(i), 10)

BothLegsServed(f) ==
  /\ f.outbound.k = "dict" /\ Len(f.outbound.recommended_flights) >= 1
  /\ f.return.k = "dict" /\ Len(f.return.recommended_flights) >= 1

CostWithinBudget(h, f, b) ==
  LET offers == h.recommended_hotels
      n == Len(offers)
      sum == SumSeq([k \in 1..n |-> offers[k].total_price])
      ft == LegPrice(f.outbound) + LegPrice(f.return)
  IN IF n = 0 THEN 3 * ft <= 2 * b
     ELSE 3 * (n * ft + sum) <= 2 * n * b

AllConditionsMet(i, h, f, b) ==
  /\ i.isdict /\ h.isdict /\ f.isdict
  /\ DaysWithinRange(i)
  /\ \A j \in 1..Len(h.recommended_hotels) : OfferNear(h.recommended_hotels[j], i)
  /\ BothLegsServed(f)
  /\ CostWithinBudget(h, f, b)

FullyPassed(r) ==
  /\ r.passed = TRUE
  /\ r.violations = <<>>
  /\ Len(r.check_details) = 5
  /\ \A k \in 1..5 :
       r.check_details[k].rule = RuleOrder[k] /\ r.check_details[k].status = "passed"

\* the check_plan calls of attempt 1 whose input meets all conditions
GoodFirstChecks ==
  {k \in CallsIn("check_plan", 1) :
     AllConditionsMet(calls[k].itinerary, calls[k].hotels, calls[k].flights,
                      calls[k].total_budget)}

\* C20: when the total cost is at most the budget, every day has 1 to 5
\* activities, every hotel offer is less than 10 km from the centroid and
\* both legs have a recommended flight, check_plan returns passed = TRUE with
\* no violations and five passed details, and run_pipeline makes no second
\* attempt and returns that plan with iterations = 1.
C20_EndToEndPass ==
  /\ (probe.pc = "done"
      /\ AllConditionsMet(probe.itinerary, probe.hotels, probe.flights,
                          probe.total_budget))
       => FullyPassed(probe.result)
  /\ \A k \in GoodFirstChecks :
       /\ FullyPassed(check_results[1])
       /\ iteration = 1
       /\ \A fn \in GeneratorFns \cup {"check_plan"} : Count(fn) = 1
       /\ pc \in {"descriptions", "format", "log", "returned"}
       /\ pc = "returned" =>
            /\ final.iterations = 1
            /\ final.check_result = check_results[1]
            /\ EraseDescriptions(final.itinerary) = EraseDescriptions(calls[k].itinerary)
            /\ final.hotels = calls[k].hotels
            /\ final.flights = calls[k].flights

\* the scenario of budget 300, one day of three activities at (0, 0), one
\* offer of 100 at 0 km and two flights of 50, returned after one attempt
C20_Witness ==
  /\ pc = "returned"
  /\ GoodFirstChecks # {}
  /\ trip_config.total_budget = 300
  /\ ~CostWithinBudget(hotels, flights, 299)
  /\ final.iterations = 1
  /\ FullyPassed(final.check_result)

\* the activity items of the checked itinerary that carry a parsable
\* coordinate: lat and lng both numbers
LocatedItems ==
  SelectSeq(FlatDays(probe.itinerary.days),
            LAMBDA it : it.lat.k = "num" /\ it.lng.k = "num")

LatOf(items) == [k \in 1..Len(items) |-> items[k].lat.v]
LngOf(items) == [k \in 1..Len(items) |-> items[k].lng.v]

\* C21: an activity item whose lat or lng is missing or unparsable adds to
\* neither mean and never makes compute_itinerary_centroid raise: both means
\* are taken over the same items, those with a parsable lat and lng.
C21_UnparsableItemsSkipped ==
  probe.pc = "centroid_done" =>
    /\ probe.result.k # "raise"
    /\ probe.result.k = "num" =>
         /\ probe.result.lat_n = probe.result.lng_n
         /\ probe.result.lat_n = Len(LocatedItems)
         /\ probe.result.lat_sum = SumSeq(LatOf(LocatedItems))
         /\ probe.result.lng_sum = SumSeq(LngOf(LocatedItems))

\* C22: compute_itinerary_centroid returns the mean latitude and the mean
\* longitude over exactly the items, of all days and slots, that carry a
\* parsable coordinate, and an absent centroid (not an error, not (0, 0))
\* when no item contributes.
C22_CentroidIsMean ==
  probe.pc = "centroid_done" =>
    IF LocatedItems = <<>> THEN probe.result.k = "none"
    ELSE /\ probe.result.k = "num"
         /\ probe.result.lat_sum * Len(LocatedItems)
              = SumSeq(LatOf(LocatedItems)) * probe.result.lat_n
         /\ probe.result.lng_sum * Len(LocatedItems)
              = SumSeq(LngOf(LocatedItems)) * probe.result.lng_n

\* the last collaborator call of the run is a format_trip call that returned
FormatTripReturned ==
  /\ calls # <<>>
  /\ calls[Len(calls)].fn = "format_trip"
  /\ ~calls[Len(calls)].raised

\* C23: with the same trip request and collaborator outputs, a verbose and a
\* non-verbose run return the same iterations, check_result, itinerary,
\* hotels, flights and summary_text; the flag only adds iteration_logs and
\* execution_log.  Stated on one run: the bundle holds, whatever the flag,
\* what the non-verbose run holds - the same keys apart from the two
\* histories, and as summary_text the text format_trip produced.
C23_VerboseOnlyAddsHistory ==
  pc = "returned" =>
    /\ final.keys \ {"iteration_logs", "execution_log"}
         = BaseKeys \cup (IF final.check_result.passed THEN {} ELSE {"all_check_results"})
    /\ final.iterations = Len(check_results)
    /\ final.check_result = check_results[Len(check_results)]
    /\ FormatTripReturned => final.summary_text = FormatTripReturn(FALSE)

\* C26: generate_attraction_descriptions and format_trip are called only in
\* an attempt that passed validation or that is the final attempt, never
\* after a failed attempt that is regenerated.
C26_FormatterOnlyAfterFinalAttempt ==
  \A k \in DOMAIN calls :
    calls[k].fn \in FormatterFns =>
      \/ check_results[calls[k].attempt].passed
      \/ calls[k].attempt = max_iterations

SameInputs(a, b) ==
  /\ a.itinerary = b.itinerary
  /\ a.hotels = b.hotels
  /\ a.flights = b.flights
  /\ a.total_budget = b.total_budget

AttemptsCompleted == IF pc \in {"while", "returned"} THEN iteration ELSE iteration - 1

\* C27: in a verbose run, after attempt n has completed iteration_logs holds
\* exactly n records, record i has iteration = i and the check_result of
\* attempt i; the returned bundle's iteration_logs has length iterations.
C27_OneLogPerAttempt ==
  (verbose /\ pc # "raised") =>
    /\ iteration >= 1 => Len(iteration_logs) = AttemptsCompleted
    /\ \A i \in DOMAIN iteration_logs :
         /\ iteration_logs[i].iteration = i
         /\ iteration_logs[i].check_result = check_results[i]
    /\ pc = "returned" =>
         /\ "iteration_logs" \in final.keys
         /\ Len(final.iteration_logs) = final.iterations
         /\ final.iteration_logs = iteration_logs

\* a verbose run returned after two attempts with two records
C27_Witness ==
  /\ verbose
  /\ pc = "returned"
  /\ final.iterations = 2
  /\ Len(final.iteration_logs) = 2
  /\ final.iteration_logs[1].check_result = check_results[1]
  /\ final.iteration_logs[2].iteration = 2

\* C28: in every result of check_plan the detail of a rule is failed exactly
\* when some violation carries that rule's identifier, so passed is true
\* exactly when every detail is passed - also when a rule raises after it
\* added violations.
C28_DetailMatchesViolations ==
  probe.pc = "done" =>
    /\ \A k \in DOMAIN probe.result.check_details :
         LET d == probe.result.check_details[k] IN
         (d.status = "failed") <=> (SelectRule(probe.result.violations, d.rule) # <<>>)
    /\ \A j \in DOMAIN probe.result.violations :
         \E k \in DOMAIN probe.result.check_details :
           probe.result.check_details[k].rule = probe.result.violations[j].rule
    /\ probe.result.passed <=>
         \A k \in DOMAIN probe.result.check_details :
           probe.result.check_details[k].status = "passed"

\* the attractions rule raised on a day that is not a dict after it had
\* recorded a violation for an earlier day
C28_Witness ==
  /\ AppliedToDicts
  /\ Len(probe.itinerary.days) = 2
  /\ probe.itinerary.days[1].ok /\ ~probe.itinerary.days[2].ok
  /\ Len(SelectRule(probe.result.violations, "attractions_count")) = 2
  /\ probe.result.check_details[3] = Detail("attractions_count", "failed", <<"error">>)
  /\ probe.result.check_details[5].status = "passed"
  /\ ~probe.result.passed

\* the check_plan call of the last attempt
LastCheck == calls[CHOOSE k \in CallsIn("check_plan", iteration) : TRUE]

C30_EmptyPlanPasses ==
  AppliedToDicts =>
    LET ft == LegPrice(probe.flights.outbound) + LegPrice(probe.flights.return)
        r == probe.result
    IN /\ probe.itinerary.days = <<>> =>
            /\ SelectRule(r.violations, "attractions_count") = <<>>
            /\ r.check_details[3].status = "passed"
       /\ probe.hotels.recommended_hotels = <<>> =>
            /\ SelectRule(r.violations, "hotel_distance") = <<>>
            /\ r.check_details[4].status = "passed"
            /\ ~HasBadLeg(probe.flights) =>
                 ((SelectRule(r.violations, "budget") # <<>>)
                    <=> 3 * ft > 2 * probe.total_budget)
       /\ (/\ probe.itinerary.days = <<>>
           /\ probe.hotels.recommended_hotels = <<>>
           /\ BothLegsServed(probe.flights)
           /\ 3 * ft <= 2 * probe.total_budget) => FullyPassed(r)

\* no days, no offers, flights of 1 + 1 and a budget of exactly 3: passed
C30_Witness ==
  /\ AppliedToDicts
  /\ probe.itinerary.days = <<>>
  /\ probe.hotels.recommended_hotels = <<>>
  /\ BothLegsServed(probe.flights)
  /\ LegPrice(probe.flights.outbound) + LegPrice(probe.flights.return) = 2
  /\ probe.total_budget = 3
  /\ FullyPassed(probe.result)

====
